---- MODULE Spec2Model ----
(***************************************************************************)
(* Model of market-watch (src/main.py): the configuration load, the HTTP   *)
(* wrapper get(), the three indicator fetchers and the run_monitor loop.   *)
(*                                                                         *)
(* Python values are tagged records (field k is the Python type).  Numbers *)
(* are exact rationals n/d, so that sum(...)/200 and y10 - y2 lose nothing.*)
(* An exception raised while an expression is evaluated is the value       *)
(* Exc(type); every operator that receives one passes it on, which is how  *)
(* an exception leaves a Python expression.                                *)
(* The log file is write-only for the program: banner holds the lines      *)
(* written before the loop, logfile those appended since the current cycle *)
(* began; log() itself (open/append/print) is taken to succeed.            *)
(***************************************************************************)
EXTENDS Integers, Sequences, FiniteSets, TLC

VARIABLES
    pc,          \* position of the process: import, main, vix, sp, yc, sleep, sleeping,
                 \* hung (inside a request that never returns), crashed
    env,         \* the environment the process was started in
    FRED_API_KEY,            \* module global, line 8
    CHECK_INTERVAL_MINUTES,  \* module global, line 11
    banner,      \* lines appended by log() before the loop was entered
    logfile,     \* lines appended by log() since the cycle began
    vix,         \* run_monitor local, line 102
    sp500,       \* run_monitor local, line 112
    yc,          \* run_monitor local, line 121
    calls,       \* fetchers called since the cycle began, in order
    net,         \* requests issued by the fetcher called last, with their outcomes
    got,         \* what the last call of get() returned or raised
    exc,         \* the uncaught exception that ended the process, or NoExc
    slept        \* seconds asked of time.sleep while the process sleeps, else 0

vars == <<pc, env, FRED_API_KEY, CHECK_INTERVAL_MINUTES, banner, logfile, vix, sp500,
          yc, calls, net, got, exc, slept>>

\* ---------------------------------------------------------------- bounds

\* closes lists have between MA_WINDOW - MaxShort and MA_WINDOW + MaxExtra entries
MaxShort == 1
MaxExtra == 2

\* ------------------------------------------------------- program constants

MA_WINDOW == 200
DEFAULT_INTERVAL == 30
GET_TIMEOUT == 30
HTTP_OK == 200

\* ---------------------------------------------------------- Python values

None == [k |-> "None"]
Num(n) == [k |-> "num", n |-> n, d |-> 1]
Rat(n, d) == [k |-> "num", n |-> n, d |-> d]
Bool(b) == [k |-> "bool", b |-> b]
Str(cs) == [k |-> "str", s |-> cs]
List(xs) == [k |-> "list", xs |-> xs]
Dict(f) == [k |-> "dict", f |-> f]
Tuple(xs) == [k |-> "tuple", xs |-> xs]
Exc(type) == [k |-> "exc", type |-> type]
HTTPError(status) == [k |-> "exc", type |-> "HTTPError", status |-> status]

IsExc(x) == x.k = "exc"
IsNum(x) == x.k = "num"

\* bool(x), as used by  if x:  and  not x
Truthy(x) ==
    CASE x.k = "None" -> FALSE
      [] x.k = "num" -> x.n # 0
      [] x.k = "bool" -> x.b
      [] x.k = "str" -> Len(x.s) > 0
      [] x.k = "list" -> Len(x.xs) > 0
      [] x.k = "tuple" -> Len(x.xs) > 0
      [] x.k = "dict" -> DOMAIN x.f # {}

\* a bool used as a number
AsNum(x) == IF x.k = "bool" THEN Num(IF x.b THEN 1 ELSE 0) ELSE x

\* Python orders numbers (and bools) only; str, list, dict or None against a number is a TypeError
Orderable(x) == x.k \in {"num", "bool"}

Lt(a, b) == AsNum(a).n * AsNum(b).d < AsNum(b).n * AsNum(a).d
Gt(a, b) == Lt(b, a)
Add(a, b) == IF AsNum(a).d = AsNum(b).d
             THEN Rat(AsNum(a).n + AsNum(b).n, AsNum(a).d)
             ELSE Rat(AsNum(a).n * AsNum(b).d + AsNum(b).n * AsNum(a).d, AsNum(a).d * AsNum(b).d)
Sub(a, b) == IF AsNum(a).d = AsNum(b).d
             THEN Rat(AsNum(a).n - AsNum(b).n, AsNum(a).d)
             ELSE Rat(AsNum(a).n * AsNum(b).d - AsNum(b).n * AsNum(a).d, AsNum(a).d * AsNum(b).d)
DivInt(a, m) == Rat(AsNum(a).n, AsNum(a).d * m)

\* x[name] with a str subscript
GetKey(x, name) ==
    IF IsExc(x) THEN x
    ELSE IF x.k = "dict"
         THEN IF name \in DOMAIN x.f THEN x.f[name] ELSE Exc("KeyError")
         ELSE Exc("TypeError")

\* x[i] with an int subscript; negative i counts from the end
GetIdx(x, i) ==
    IF IsExc(x) THEN x
    ELSE IF x.k \in {"list", "tuple"}
         THEN LET j == IF i >= 0 THEN i + 1 ELSE Len(x.xs) + i + 1
              IN  IF j \in 1..Len(x.xs) THEN x.xs[j] ELSE Exc("IndexError")
    ELSE IF x.k = "str"
         THEN LET j == IF i >= 0 THEN i + 1 ELSE Len(x.s) + i + 1
              IN  IF j \in 1..Len(x.s) THEN Str(<<x.s[j]>>) ELSE Exc("IndexError")
    ELSE IF x.k = "dict" THEN Exc("KeyError")
    ELSE Exc("TypeError")

\* xs[-(n-1):], one element short
SliceLast_short(xs, n) ==
    LET start == IF Len(xs) - n + 1 > 0 THEN Len(xs) - n + 1 ELSE 0
    IN  SubSeq(xs, start + 1, Len(xs))

\* xs[-n:] on a sequence
SliceLast(xs, n) ==
    LET start == IF Len(xs) - n > 0 THEN Len(xs) - n ELSE 0
    IN  SubSeq(xs, start + 1, Len(xs))

\* ------------------------------------------------ float(), int() on strings

DigitOf == ("0" :> 0) @@ ("1" :> 1) @@ ("2" :> 2) @@ ("3" :> 3) @@ ("4" :> 4) @@
           ("5" :> 5) @@ ("6" :> 6) @@ ("7" :> 7) @@ ("8" :> 8) @@ ("9" :> 9)

IsDigits(cs) == \A i \in 1..Len(cs) : cs[i] \in DOMAIN DigitOf

RECURSIVE DigitsVal(_)
DigitsVal(cs) ==
    IF cs = <<>> THEN 0
    ELSE DigitsVal(SubSeq(cs, 1, Len(cs) - 1)) * 10 + DigitOf[cs[Len(cs)]]

RECURSIVE Pow10(_)
Pow10(e) == IF e = 0 THEN 1 ELSE 10 * Pow10(e - 1)

\* float(s) for a str of the form [sign] digits [. digits]; anything else is a ValueError
\* (exponents, inf and nan are not in the strings the model feeds it)
ParseFloat(cs) ==
    LET signed == Len(cs) > 0 /\ cs[1] \in {"-", "+"}
        body == IF signed THEN Tail(cs) ELSE cs
        dots == {i \in 1..Len(body) : body[i] = "."}
        dot == IF dots = {} THEN Len(body) + 1 ELSE CHOOSE i \in dots : TRUE
        ip == SubSeq(body, 1, dot - 1)
        fp == SubSeq(body, dot + 1, Len(body))
        mag == DigitsVal(ip \o fp)
    IN  IF Cardinality(dots) > 1 \/ ~IsDigits(ip) \/ ~IsDigits(fp) \/ Len(ip) + Len(fp) = 0
        THEN Exc("ValueError")
        ELSE Rat(IF signed /\ cs[1] = "-" THEN 0 - mag ELSE mag, Pow10(Len(fp)))

\* float(x), lines 88-89
float(x) ==
    IF IsExc(x) THEN x
    ELSE CASE x.k = "str" -> ParseFloat(x.s)
           [] x.k \in {"num", "bool"} -> AsNum(x)
           [] OTHER -> Exc("TypeError")

\* int(s) for a str, the cast of CHECK_INTERVAL_MINUTES
ParseInt(cs) ==
    LET signed == Len(cs) > 0 /\ cs[1] \in {"-", "+"}
        body == IF signed THEN Tail(cs) ELSE cs
    IN  IF body = <<>> \/ ~IsDigits(body) THEN Exc("ValueError")
        ELSE Num(IF signed /\ cs[1] = "-" THEN 0 - DigitsVal(body) ELSE DigitsVal(body))

\* ------------------------------------------------------------ the network

\* what one HTTP request can come to: a response, a transport failure, or,
\* when the request carries no timeout, no answer at all
Resp(status, body) == [k |-> "resp", status |-> status, body |-> body]
NetErr(type) == [k |-> "neterr", type |-> type]
Hang == [k |-> "hang"]
Timeout(secs) == [set |-> TRUE, secs |-> secs]
NoTimeout == [set |-> FALSE]

JsonBody(v) == [wf |-> TRUE, json |-> v]
BadBody == [wf |-> FALSE]

Request(url, timeout, out) == [url |-> url, timeout |-> timeout, out |-> out]

\* requests.get(url, ...): the response, or the transport exception
requests_get(o) == IF o.k = "neterr" THEN Exc(o.type) ELSE o

\* response.json()
json(response) ==
    IF IsExc(response) THEN response
    ELSE IF response.body.wf THEN response.body.json ELSE Exc("JSONDecodeError")

\* get() raising only outside 200..299
get_any_2xx(o) ==
    LET response == requests_get(o)
    IN  IF IsExc(response) THEN response
        ELSE IF response.status \notin 200..299 THEN HTTPError(response.status)
        ELSE json(response)

\* get(url, timeout=30), lines 36-49
get(o) ==
    LET response == requests_get(o)
    IN  IF IsExc(response) THEN response
        ELSE IF response.status # HTTP_OK THEN HTTPError(response.status)
        ELSE json(response)

\* ---------------------------------------------------------------- the log

Line(msg, args) == [msg |-> msg, args |-> args]

\* log(message), lines 27-33: one line appended
log(file, line) == Append(file, line)

\* format(x, ".2f"): x rounded to hundredths (ties to even), as a count of hundredths
Fmt2(x) ==
    LET a == AsNum(x)
        q == (a.n * 100) \div a.d
        r == (a.n * 100) % a.d
    IN  IF 2 * r < a.d THEN q
        ELSE IF 2 * r > a.d THEN q + 1
        ELSE IF q % 2 = 0 THEN q ELSE q + 1

\* ----------------------------------------------------------- the fetchers
\* each returns [ret: the value returned, lines: what it logged,
\*               net: the requests it issued, got: the result of its last get()]

NoGet == [k |-> "noget"]

\* check_vix() with an except block that returns None without logging
check_vix_silent(o) ==
    LET data == get(o)
        price == GetKey(GetKey(GetIdx(GetKey(GetKey(data, "chart"), "result"), 0),
                               "meta"), "regularMarketPrice")
        reqs == <<Request("^VIX", Timeout(GET_TIMEOUT), o)>>
    IN  IF IsExc(price)
        THEN [ret |-> None, lines |-> <<>>, net |-> reqs, got |-> data]
        ELSE [ret |-> price, lines |-> <<>>, net |-> reqs, got |-> data]

\* check_vix(), lines 52-60
check_vix(o) ==
    LET data == get(o)
        price == GetKey(GetKey(GetIdx(GetKey(GetKey(data, "chart"), "result"), 0),
                               "meta"), "regularMarketPrice")
        reqs == <<Request("^VIX", Timeout(GET_TIMEOUT), o)>>
    IN  IF IsExc(price)
        THEN [ret |-> None, lines |-> <<Line("Error fetching VIX", <<price>>)>>,
              net |-> reqs, got |-> data]
        ELSE [ret |-> price, lines |-> <<>>, net |-> reqs, got |-> data]

\* for c in x  raises TypeError unless x is one of these
Iterable(x) == x.k \in {"list", "tuple", "str", "dict"}

\* the elements a  for c in x  visits
\* (a dict yields its keys, all str; only their number can matter below)
Iterate(x) ==
    CASE x.k = "list" -> x.xs
      [] x.k = "tuple" -> x.xs
      [] x.k = "str" -> [i \in 1..Len(x.s) |-> Str(<<x.s[i]>>)]
      [] x.k = "dict" -> [i \in 1..Cardinality(DOMAIN x.f) |-> Str(<<"k">>)]

\* xs[lo] + ... + xs[hi], halving the range to keep the evaluation shallow
RECURSIVE SumRange(_, _, _)
SumRange(xs, lo, hi) ==
    IF lo > hi THEN Num(0)
    ELSE IF lo = hi THEN AsNum(xs[lo])
    ELSE LET mid == (lo + hi) \div 2
         IN  Add(SumRange(xs, lo, mid), SumRange(xs, mid + 1, hi))

\* sum(xs): 0 + x raises TypeError for anything but a number
sum(xs) ==
    IF \E i \in 1..Len(xs) : ~Orderable(xs[i]) THEN Exc("TypeError") ELSE SumRange(xs, 1, Len(xs))

\* lines 68-73, on the value extracted at line 67
ma200_of(raw) ==
    IF ~Iterable(raw) THEN Exc("TypeError")
    ELSE LET closes == SelectSeq(Iterate(raw), LAMBDA c : c.k # "None")
         IN  IF Len(closes) >= MA_WINDOW
             THEN LET total == sum(SliceLast(closes, MA_WINDOW))
                  IN  IF IsExc(total) THEN total
                      ELSE Tuple(<<closes[Len(closes)], DivInt(total, MA_WINDOW)>>)
             ELSE None

\* check_sp500_200ma(), lines 63-76
check_sp500_200ma(o) ==
    LET data == get(o)
        raw == GetKey(GetIdx(GetKey(GetKey(GetIdx(GetKey(GetKey(data, "chart"), "result"), 0),
                                           "indicators"), "quote"), 0), "close")
        res == IF IsExc(raw) THEN raw ELSE ma200_of(raw)
        reqs == <<Request("^GSPC", Timeout(GET_TIMEOUT), o)>>
    IN  IF IsExc(res)
        THEN [ret |-> None, lines |-> <<Line("Error fetching S&P 500 data", <<res>>)>>,
              net |-> reqs, got |-> data]
        ELSE [ret |-> res, lines |-> <<>>, net |-> reqs, got |-> data]

\* requests.get(url).json()["observations"][-1], lines 86 and 87
last_observation(o) == GetIdx(GetKey(json(requests_get(o)), "observations"), 0 - 1)

\* check_yield_curve(), lines 79-94; the second request is only issued when
\* line 86 raised nothing
check_yield_curve(key, o2, o10) ==
    IF ~Truthy(key)
    THEN [ret |-> None, lines |-> <<>>, net |-> <<>>, got |-> NoGet]
    ELSE LET data_2y == last_observation(o2)
             data_10y == last_observation(o10)
             y2 == float(GetKey(data_2y, "value"))
             y10 == float(GetKey(data_10y, "value"))
             r2 == Request("DGS2", NoTimeout, o2)
             r10 == Request("DGS10", NoTimeout, o10)
             fail(e, reqs) == [ret |-> None, net |-> reqs, got |-> NoGet,
                               lines |-> <<Line("Error fetching yield curve", <<e>>)>>]
         IN  IF IsExc(data_2y) THEN fail(data_2y, <<r2>>)
             ELSE IF IsExc(data_10y) THEN fail(data_10y, <<r2, r10>>)
             ELSE IF IsExc(y2) THEN fail(y2, <<r2, r10>>)
             ELSE IF IsExc(y10) THEN fail(y10, <<r2, r10>>)
             ELSE [ret |-> Tuple(<<y2, y10, Sub(y10, y2)>>), lines |-> <<>>,
                   net |-> <<r2, r10>>, got |-> NoGet]

\* -------------------------------------------------- run_monitor, per step
\* each returns [lines: what the step logs, raised: the exception it raises or NoExc]

NoExc == [k |-> "noexc"]

\* lines 103-109
vix_step(v) ==
    IF ~Truthy(v) THEN [lines |-> <<>>, raised |-> NoExc]
    ELSE IF ~Orderable(v) THEN [lines |-> <<>>, raised |-> Exc("TypeError")]
    ELSE IF Gt(v, Num(45))
         THEN [lines |-> <<Line("VIX ALERT", <<v>>)>>, raised |-> NoExc]
    ELSE IF Gt(v, Num(25))
         THEN [lines |-> <<Line("VIX Warning", <<v>>)>>, raised |-> NoExc]
    ELSE [lines |-> <<Line("VIX Normal", <<v>>)>>, raised |-> NoExc]

\* lines 113-118
sp500_step(sp) ==
    IF ~Truthy(sp) THEN [lines |-> <<>>, raised |-> NoExc]
    ELSE LET price == sp.xs[1]
             ma200 == sp.xs[2]
         IN  IF ~Orderable(price) \/ ~Orderable(ma200)
             THEN [lines |-> <<>>, raised |-> Exc("TypeError")]
             ELSE IF Lt(price, ma200)
             THEN [lines |-> <<Line("S&P 500 Below 200MA", <<Fmt2(price), Fmt2(ma200)>>)>>,
                   raised |-> NoExc]
             ELSE [lines |-> <<Line("S&P 500 Above 200MA", <<Fmt2(price), Fmt2(ma200)>>)>>,
                   raised |-> NoExc]

\* lines 122-129 with an inclusive boundary
yc_step_inclusive(y) ==
    IF ~Truthy(y) THEN [lines |-> <<>>, raised |-> NoExc]
    ELSE LET y2 == y.xs[1]
             y10 == y.xs[2]
             spread == y.xs[3]
         IN  IF ~Gt(spread, Rat(0 - 75, 100))
             THEN [lines |-> <<Line("Yield Curve Deep Inversion", <<y2, y10, Fmt2(spread)>>)>>,
                   raised |-> NoExc]
             ELSE [lines |-> <<Line("Yield Curve Normal/Steepening", <<Fmt2(spread)>>)>>,
                   raised |-> NoExc]

\* lines 122-129; -0.75 is Rat(-75, 100)
yc_step(y) ==
    IF ~Truthy(y) THEN [lines |-> <<>>, raised |-> NoExc]
    ELSE LET y2 == y.xs[1]
             y10 == y.xs[2]
             spread == y.xs[3]
         IN  IF Lt(spread, Rat(0 - 75, 100))
             THEN [lines |-> <<Line("Yield Curve Deep Inversion", <<y2, y10, Fmt2(spread)>>)>>,
                   raised |-> NoExc]
             ELSE [lines |-> <<Line("Yield Curve Normal/Steepening", <<Fmt2(spread)>>)>>,
                   raised |-> NoExc]

\* ------------------------------------------------ what the environment offers

\* FRED_API_KEY unset, set to the empty string, set to a key;
\* CHECK_INTERVAL_MINUTES unset or set to a positive integer
Unset == [set |-> FALSE]
SetTo(cs) == [set |-> TRUE, val |-> cs]
Envs == [FRED_API_KEY : {Unset, SetTo(<<>>), SetTo(<<"k", "e", "y">>)},
         CHECK_INTERVAL_MINUTES : {Unset, SetTo(<<"1", "5">>)}]

\* the chart payload: chart.result[0].meta and chart.result[0].indicators.quote[0].close
Chart(meta, closes) ==
    Dict([chart |-> Dict([result |-> List(<<Dict([meta |-> meta,
          indicators |-> Dict([quote |-> List(<<Dict([close |-> closes])>>)])])>>)])])

Meta(price) == Dict([regularMarketPrice |-> price])

TransportErrors == {NetErr("ConnectionError"), NetErr("Timeout")}

VixPrices == {Num(0), Num(25), Num(26), Num(45), Num(46), Rat(2505, 100),
              Str(<<"5", "0">>), List(<<Num(50)>>), None}

\* the price, or a payload that lacks a part of the path, or no JSON at all,
\* under several statuses; or no response
VixOutcomes ==
    {Resp(200, JsonBody(Chart(Meta(p), List(<<>>)))) : p \in VixPrices}
    \cup {Resp(200, JsonBody(Dict(<<>>))),
          Resp(200, JsonBody(Dict([chart |-> Dict([result |-> None])]))),
          Resp(200, BadBody),
          Resp(201, JsonBody(Chart(Meta(Num(50)), List(<<>>)))),
          Resp(404, JsonBody(Chart(Meta(Num(50)), List(<<>>)))),
          NetErr("Timeout")}

\* a closes list of len entries, null at the places in nulls, rising or falling
Closes(len, nulls, falling) ==
    List([i \in 1..len |-> IF i \in nulls THEN None
                           ELSE Num(IF falling THEN 5000 - 3 * i ELSE 3000 + 3 * i)])

CloseLens == (MA_WINDOW - MaxShort)..(MA_WINDOW + MaxExtra)

ClosesLists ==
    UNION {{Closes(len, nulls, FALSE) : nulls \in SUBSET {1, len}} \cup {Closes(len, {2}, TRUE)} :
           len \in CloseLens}

\* a close that is not a number, in a list long enough and in one too short
OddCloses == {List([i \in 1..MA_WINDOW |-> IF i = 7 THEN Str(<<"x">>) ELSE Num(i)]),
              List(<<Str(<<"x">>)>>), None}

Sp500Outcomes ==
    {Resp(200, JsonBody(Chart(Meta(Num(4000)), c))) : c \in ClosesLists \cup OddCloses}
    \cup {Resp(200, JsonBody(Dict([chart |-> Dict([result |-> List(<<>>)])]))),
          Resp(404, JsonBody(Chart(Meta(Num(4000)), Closes(MA_WINDOW, {}, FALSE)))),
          NetErr("ConnectionError")}

\* the observations payload; only the last observation is read
Observations(vals) ==
    Dict([observations |-> List([i \in 1..Len(vals) |-> Dict([value |-> vals[i]])])])

\* "." is what a series carries on a day without a value
Yields2 == {Str(<<"4", ".", "5", "0">>), Str(<<"5", ".", "0", "0">>), Str(<<"4", ".", "5", "1">>),
            Str(<<"3">>), Str(<<".">>), None}
Yields10 == {Str(<<"3", ".", "7", "5">>), Str(<<"4">>), Str(<<".">>)}

\* what the DGS2 request can come to
Yield2Outcomes ==
    {Resp(200, JsonBody(Observations(<<v>>))) : v \in Yields2}
    \cup {Resp(200, JsonBody(Observations(<<Str(<<"9", ".", "9", "9">>), Str(<<"4", ".", "5", "0">>)>>))),
          Resp(200, JsonBody(Observations(<<>>))),
          Resp(200, JsonBody(Dict([observations |-> List(<<Dict(<<>>)>>)]))),
          Resp(400, JsonBody(Dict([error_code |-> Num(400)]))),
          Resp(404, JsonBody(Observations(<<Str(<<"4", ".", "5", "0">>)>>))),
          Resp(200, BadBody),
          NetErr("ConnectionError"),
          Hang}

\* what the DGS10 request can come to
Yield10Outcomes ==
    {Resp(200, JsonBody(Observations(<<v>>))) : v \in Yields10}
    \cup {Resp(200, JsonBody(Observations(<<Str(<<"1", ".", "0", "0">>), Str(<<"3", ".", "7", "5">>)>>))),
          Resp(404, JsonBody(Observations(<<Str(<<"3", ".", "7", "5">>)>>))),
          Resp(500, BadBody),
          NetErr("ConnectionError"),
          Hang}

\* ------------------------------------------------------------- the process

Uncaught(e, at) == [k |-> "uncaught", type |-> e.type, at |-> at]

Init ==
    /\ pc = "import"
    /\ env \in Envs
    /\ FRED_API_KEY = None
    /\ CHECK_INTERVAL_MINUTES = None
    /\ banner = <<>>
    /\ logfile = <<>>
    /\ vix = None
    /\ sp500 = None
    /\ yc = None
    /\ calls = <<>>
    /\ net = <<>>
    /\ got = NoGet
    /\ exc = NoExc
    /\ slept = 0

\* config(name, cast=str) without a default: the value, or UndefinedValueError
config(setting) == IF setting.set THEN Str(setting.val) ELSE Exc("UndefinedValueError")

\* config(name, default=..., cast=int)
config_int(setting, default) == IF setting.set THEN ParseInt(setting.val) ELSE Num(default)

\* module import, lines 8-11
LoadConfig ==
    /\ pc = "import"
    /\ LET key == config(env.FRED_API_KEY)
           minutes == config_int(env.CHECK_INTERVAL_MINUTES, DEFAULT_INTERVAL)
       IN  IF IsExc(key)
           THEN /\ pc' = "crashed"
                /\ exc' = Uncaught(key, "import")
                /\ UNCHANGED <<FRED_API_KEY, CHECK_INTERVAL_MINUTES>>
           ELSE IF IsExc(minutes)
           THEN /\ pc' = "crashed"
                /\ exc' = Uncaught(minutes, "import")
                /\ FRED_API_KEY' = key
                /\ UNCHANGED CHECK_INTERVAL_MINUTES
           ELSE /\ pc' = "main"
                /\ FRED_API_KEY' = key
                /\ CHECK_INTERVAL_MINUTES' = minutes
                /\ UNCHANGED exc
    /\ UNCHANGED <<env, banner, logfile, vix, sp500, yc, calls, net, got, slept>>

\* line 99
StartMonitor ==
    /\ pc = "main"
    /\ banner' = log(banner, Line("=== Market Trigger Monitor Started ===", <<>>))
    /\ pc' = "vix"
    /\ UNCHANGED <<env, FRED_API_KEY, CHECK_INTERVAL_MINUTES, logfile, vix, sp500, yc, calls,
                   net, got, exc, slept>>

\* what a step of the loop leaves: the lines of the fetcher, then those of the
\* classification, and the next position unless the classification raised
AfterStep(f, st, next) ==
    /\ logfile' = logfile \o f.lines \o st.lines
    /\ net' = f.net
    /\ got' = f.got
    /\ IF IsExc(st.raised)
       THEN pc' = "crashed" /\ exc' = Uncaught(st.raised, "run_monitor")
       ELSE pc' = next /\ UNCHANGED exc

\* lines 102-109
VixCheck ==
    /\ pc = "vix"
    /\ \E o \in VixOutcomes :
         LET f == check_vix(o)
         IN  /\ vix' = f.ret
             /\ AfterStep(f, vix_step(f.ret), "sp")
    /\ calls' = Append(calls, "check_vix")
    /\ UNCHANGED <<env, FRED_API_KEY, CHECK_INTERVAL_MINUTES, banner, sp500, yc, slept>>

\* lines 112-118
Sp500Check ==
    /\ pc = "sp"
    /\ \E o \in Sp500Outcomes :
         LET f == check_sp500_200ma(o)
         IN  /\ sp500' = f.ret
             /\ AfterStep(f, sp500_step(f.ret), "yc")
    /\ calls' = Append(calls, "check_sp500_200ma")
    /\ UNCHANGED <<env, FRED_API_KEY, CHECK_INTERVAL_MINUTES, banner, vix, yc, slept>>

\* requests.get without a timeout never returns when the server never answers:
\* the first request, or the second when line 86 raised nothing
blocked_requests(key, o2, o10) ==
    IF ~Truthy(key) THEN <<>>
    ELSE IF o2 = Hang THEN <<Request("DGS2", NoTimeout, o2)>>
    ELSE IF ~IsExc(last_observation(o2)) /\ o10 = Hang
         THEN <<Request("DGS2", NoTimeout, o2), Request("DGS10", NoTimeout, o10)>>
    ELSE <<>>

\* lines 121-129
YieldCurveCheck ==
    /\ pc = "yc"
    /\ \E o2 \in Yield2Outcomes, o10 \in Yield10Outcomes :
         IF blocked_requests(FRED_API_KEY, o2, o10) # <<>>
         THEN /\ pc' = "hung"
              /\ net' = blocked_requests(FRED_API_KEY, o2, o10)
              /\ got' = NoGet
              /\ UNCHANGED <<yc, logfile, exc>>
         ELSE LET f == check_yield_curve(FRED_API_KEY, o2, o10)
              IN  /\ yc' = f.ret
                  /\ AfterStep(f, yc_step(f.ret), "sleep")
    /\ calls' = Append(calls, "check_yield_curve")
    /\ UNCHANGED <<env, FRED_API_KEY, CHECK_INTERVAL_MINUTES, banner, vix, sp500, slept>>

\* line 132: time.sleep(CHECK_INTERVAL_MINUTES * 60) is entered; the cycle is
\* over, and its locals are dead (each is assigned before it is read again)
Sleep ==
    /\ pc = "sleep"
    /\ slept' = CHECK_INTERVAL_MINUTES.n * 60
    /\ pc' = "sleeping"
    /\ logfile' = <<>>
    /\ calls' = <<>>
    /\ net' = <<>>
    /\ got' = NoGet
    /\ vix' = None
    /\ sp500' = None
    /\ yc' = None
    /\ UNCHANGED <<env, FRED_API_KEY, CHECK_INTERVAL_MINUTES, banner, exc>>

\* time.sleep returns and the loop is back at line 100
Wake ==
    /\ pc = "sleeping"
    /\ pc' = "vix"
    /\ slept' = 0
    /\ UNCHANGED <<env, FRED_API_KEY, CHECK_INTERVAL_MINUTES, banner, logfile, vix, sp500, yc,
                   calls, net, got, exc>>

Next ==
    \/ LoadConfig
    \/ StartMonitor
    \/ VixCheck
    \/ Sp500Check
    \/ YieldCurveCheck
    \/ Sleep
    \/ Wake

Spec == Init /\ [][Next]_vars

\* the interpreter runs the next statement whenever there is one
FairSpec == Spec /\ WF_vars(Next)

\* ------------------------------------------------------- reading a state

Fetchers == <<"check_vix", "check_sp500_200ma", "check_yield_curve">>

\* the fetcher called last in this cycle
LastCall == IF calls = <<>> THEN "none" ELSE calls[Len(calls)]

\* what the fetcher returned to run_monitor
Returned(f) ==
    CASE f = "check_vix" -> vix
      [] f = "check_sp500_200ma" -> sp500
      [] f = "check_yield_curve" -> yc

ErrorMsg(f) ==
    CASE f = "check_vix" -> "Error fetching VIX"
      [] f = "check_sp500_200ma" -> "Error fetching S&P 500 data"
      [] f = "check_yield_curve" -> "Error fetching yield curve"

StatusMsgs(f) ==
    CASE f = "check_vix" -> {"VIX ALERT", "VIX Warning", "VIX Normal"}
      [] f = "check_sp500_200ma" -> {"S&P 500 Below 200MA", "S&P 500 Above 200MA"}
      [] f = "check_yield_curve" -> {"Yield Curve Deep Inversion", "Yield Curve Normal/Steepening"}

\* the lines of a file whose message is one of msgs
LinesWith(file, msgs) == SelectSeq(file, LAMBDA l : l.msg \in msgs)

\* every line an indicator can own: its status lines and its error line
LinesOf(file, f) == LinesWith(file, StatusMsgs(f) \cup {ErrorMsg(f)})

IsResp(o) == o.k = "resp"

\* a request that brought no usable answer: no response, a status outside 2xx,
\* or a body that is not JSON
RequestFailed(r) ==
    \/ r.out.k = "neterr"
    \/ IsResp(r.out) /\ (r.out.status \notin 200..299 \/ ~r.out.body.wf)

\* ----------------------------------------------------------------- claims

\* C1: a fetcher whose request failed (transport error, non-success status,
\* body that is not JSON) returns None and logs exactly one line, the one
\* with its own prefix, and nothing of it reaches run_monitor as an exception.
C1_FetchersIsolateFailures ==
    (LastCall # "none" /\ pc # "hung" /\ \E i \in 1..Len(net) : RequestFailed(net[i]))
        => /\ Returned(LastCall) = None
           /\ Len(LinesWith(logfile, {ErrorMsg(LastCall)})) = 1
           /\ LinesWith(logfile, StatusMsgs(LastCall)) = <<>>
           /\ pc # "crashed"

\* C2: a cycle that has ended, by reaching the sleep or by the death of the
\* process inside the loop, has called check_vix, check_sp500_200ma and
\* check_yield_curve once each in that order, and the sleep it enters lasts
\* CHECK_INTERVAL_MINUTES * 60 seconds.
C2_ThreeFetchersThenSleep ==
    /\ calls = SubSeq(Fetchers, 1, Len(calls))
    /\ (pc = "sleep" \/ (pc = "crashed" /\ exc.at = "run_monitor")) => calls = Fetchers
    /\ pc = "sleeping" => slept = CHECK_INTERVAL_MINUTES.n * 60

\* C3: every number v that check_vix returns gets exactly one VIX line in the
\* cycle: ALERT when v > 45, Warning when 25 < v <= 45, Normal when v <= 25.
C3_OneVixLinePerValue ==
    (LastCall = "check_vix" /\ IsNum(vix))
        => LET ls == LinesOf(logfile, "check_vix")
           IN  /\ Len(ls) = 1
               /\ ls[1].msg = IF vix.n > 45 * vix.d THEN "VIX ALERT"
                              ELSE IF vix.n > 25 * vix.d THEN "VIX Warning"
                              ELSE "VIX Normal"

\* the closes list that the last S&P 500 request delivered, when it delivered one
DeliveredCloses ==
    IF LastCall = "check_sp500_200ma" /\ IsResp(net[1].out) /\ net[1].out.status = HTTP_OK
       /\ net[1].out.body.wf
    THEN {c \in ClosesLists : net[1].out.body.json = Chart(Meta(Num(4000)), c)}
    ELSE {}

\* the places of a closes list that hold a number
Valid(c) == {i \in 1..Len(c.xs) : c.xs[i] # None}

\* the places of the last MA_WINDOW numbers of a closes list
Window(c) == {i \in Valid(c) : Cardinality({j \in Valid(c) : j >= i}) <= MA_WINDOW}

\* the sum of the closes at the places of W between lo and hi
RECURSIVE TotalOver(_, _, _, _)
TotalOver(c, W, lo, hi) ==
    IF lo > hi THEN 0
    ELSE IF lo = hi THEN (IF lo \in W THEN c.xs[lo].n ELSE 0)
    ELSE TotalOver(c, W, lo, (lo + hi) \div 2) + TotalOver(c, W, (lo + hi) \div 2 + 1, hi)

\* C4: with nulls removed, fewer than 200 closes give None (and no error);
\* 200 or more give (last non-null close, sum of the last 200 non-null
\* closes / 200).
C4_MovingAverage ==
    \A c \in DeliveredCloses :
        IF Cardinality(Valid(c)) < MA_WINDOW
        THEN sp500 = None /\ LinesOf(logfile, "check_sp500_200ma") = <<>>
        ELSE /\ sp500.k = "tuple"
             /\ Len(sp500.xs) = 2
             /\ sp500.xs[1] = c.xs[CHOOSE i \in Valid(c) : \A j \in Valid(c) : j <= i]
             /\ Cardinality(Window(c)) = MA_WINDOW
             /\ sp500.xs[2].n * MA_WINDOW = TotalOver(c, Window(c), 1, Len(c.xs)) * sp500.xs[2].d

\* C4 witness: a list with nulls in it that leaves exactly 200 closes, averaged
C4_ExactWindowReached ==
    \E c \in DeliveredCloses :
        /\ Cardinality(Valid(c)) = MA_WINDOW
        /\ Len(c.xs) > MA_WINDOW
        /\ sp500.k = "tuple"

\* C5: a returned (y2, y10, spread) has spread = y10 - y2 and gets exactly one
\* yield-curve line: Deep Inversion when spread < -0.75, else Normal/Steepening;
\* 4.50 and 3.75 give -0.75, which is Normal/Steepening.
C5_SpreadAndYieldLine ==
    (LastCall = "check_yield_curve" /\ pc # "hung" /\ yc # None)
        => LET y2 == yc.xs[1]
               y10 == yc.xs[2]
               spread == yc.xs[3]
               ls == LinesOf(logfile, "check_yield_curve")
           IN  /\ spread.n * y2.d * y10.d = (y10.n * y2.d - y2.n * y10.d) * spread.d
               /\ Len(ls) = 1
               /\ ls[1].msg = IF spread.n * 100 < (0 - 75) * spread.d
                              THEN "Yield Curve Deep Inversion"
                              ELSE "Yield Curve Normal/Steepening"
               /\ pc = "sleep"

\* C5 witness: 4.50 and 3.75 were returned and the line is Normal/Steepening
C5_BoundaryReached ==
    /\ LastCall = "check_yield_curve"
    /\ pc = "sleep"
    /\ yc # None
    /\ yc.xs[1] = Rat(450, 100)
    /\ yc.xs[2] = Rat(375, 100)
    /\ LinesOf(logfile, "check_yield_curve")
         = <<Line("Yield Curve Normal/Steepening", <<0 - 75>>)>>

\* C6: with no FRED_API_KEY in the environment the process keeps running, and
\* check_yield_curve returns None with no request and no log line.
C6_RunsWithoutKey ==
    ~env.FRED_API_KEY.set
        => /\ ~(pc = "crashed" /\ exc.at = "import")
           /\ LastCall = "check_yield_curve"
                => yc = None /\ net = <<>> /\ LinesOf(logfile, "check_yield_curve") = <<>>

\* get() was called by the last fetcher and a response came back
GetAnswered == LastCall \in {"check_vix", "check_sp500_200ma"} /\ IsResp(net[1].out)

RaisedHTTPError(st) == IsExc(got) /\ got.type = "HTTPError" /\ got.status = st

\* C7 as claimed: get() raises HTTPError(status) exactly when the status is
\* outside 2xx, and returns the parsed body of a 2xx response.
C7_HTTPErrorIffNot2xx ==
    GetAnswered
        => LET r == net[1].out
           IN  /\ RaisedHTTPError(r.status) <=> r.status \notin 200..299
               /\ (r.status \in 200..299 /\ r.body.wf) => got = r.body.json

\* C7 amended: get() raises HTTPError(status) exactly when the status is not
\* 200, and returns the parsed body of a 200 response.
C7_HTTPErrorIffNot200 ==
    GetAnswered
        => LET r == net[1].out
           IN  /\ RaisedHTTPError(r.status) <=> r.status # 200
               /\ (r.status = 200 /\ r.body.wf) => got = r.body.json

\* C7 witness: a 201 response made get() raise HTTPError(201)
C7_Raised201 == GetAnswered /\ net[1].out.status = 201 /\ RaisedHTTPError(201)

\* C8: no exception is raised in run_monitor's own classification and
\* formatting steps, whatever the endpoints answered.
C8_LoopNeverRaises == ~(pc = "crashed" /\ exc.at = "run_monitor")

\* the outcomes on which a fetcher raises inside its try block
VixFailures ==
    VixOutcomes \ {Resp(200, JsonBody(Chart(Meta(p), List(<<>>)))) : p \in VixPrices}
Sp500Failures ==
    Sp500Outcomes \ {Resp(200, JsonBody(Chart(Meta(Num(4000)), c))) :
                        c \in ClosesLists \cup {List(<<Str(<<"x">>)>>)}}
Yield2Failures ==
    Yield2Outcomes \ ({Resp(200, JsonBody(Observations(<<v>>))) : v \in Yields2 \ {Str(<<".">>), None}}
        \cup {Resp(200, JsonBody(Observations(<<Str(<<"9", ".", "9", "9">>), Str(<<"4", ".", "5", "0">>)>>))),
              Resp(404, JsonBody(Observations(<<Str(<<"4", ".", "5", "0">>)>>)))})
Yield10Failures ==
    Yield10Outcomes \ ({Resp(200, JsonBody(Observations(<<v>>))) : v \in Yields10 \ {Str(<<".">>)}}
        \cup {Resp(200, JsonBody(Observations(<<Str(<<"1", ".", "0", "0">>), Str(<<"3", ".", "7", "5">>)>>))),
              Resp(404, JsonBody(Observations(<<Str(<<"3", ".", "7", "5">>)>>)))})

\* the fetcher called last got an answer on which it raises
FetchFailed ==
    /\ LastCall # "none"
    /\ pc # "hung"
    /\ \E i \in 1..Len(net) :
         net[i].out \in (CASE net[i].url = "^VIX" -> VixFailures
                           [] net[i].url = "^GSPC" -> Sp500Failures
                           [] net[i].url = "DGS2" -> Yield2Failures
                           [] net[i].url = "DGS10" -> Yield10Failures)

\* C9 as claimed: a fetch that failed leaves no line of its indicator in the log.
C9_FailedFetchLogsNothing == FetchFailed => LinesOf(logfile, LastCall) = <<>>

\* C9 amended: the step of a fetch that fails appends exactly one line, the
\* fetcher's error line, and no status line; the lines already logged stay,
\* and the loop goes on to the next step as it does when nothing is returned.
C9_FailedFetchLogsOneErrorLine ==
    [][FetchFailed' /\ calls' # calls
         => /\ Len(logfile') = Len(logfile) + 1
            /\ SubSeq(logfile', 1, Len(logfile)) = logfile
            /\ logfile'[Len(logfile')].msg = ErrorMsg(LastCall')
            /\ Returned(LastCall') = None
            /\ pc' = (CASE pc = "vix" -> "sp" [] pc = "sp" -> "yc" [] pc = "yc" -> "sleep")]_vars

\* C9 witness: the S&P 500 fetch failed after a VIX status line was logged
C9_FailureAfterStatusLine ==
    /\ FetchFailed
    /\ LastCall = "check_sp500_200ma"
    /\ Len(logfile) = 2
    /\ logfile[1].msg = "VIX Warning"
    /\ logfile[2].msg = "Error fetching S&P 500 data"

\* C10: every cycle that starts reaches the sleep step (a cycle that dies in
\* a classification step is C8's matter and is let pass here).
C10_CycleReachesSleep == (pc = "vix") ~> (pc \in {"sleep", "crashed"})

====
